---- MODULE Spec2Model ----
(***************************************************************************)
(* The playlist reconciliation of utils/plex.py: createPlexServer,         *)
(* saveSearch, _get_available_plex_tracks, _update_plex_playlist,          *)
(* update_or_create_plex_playlist, _write_csv and _delete_csv, as a        *)
(* step machine over one playlist name.  The Plex server (its search       *)
(* index, its playlists) and the /data directory are the environment.      *)
(***************************************************************************)
EXTENDS Integers, Sequences, FiniteSets, TLC

\* ---------------------------------------------------------------- bounds
\* longest source playlist
MaxTracks == 2
\* injected failures (connection loss, refused remote call, I/O error) per behaviour
MaxFailures == 1
\* failed PlexServer(...) attempts inside one createPlexServer call, each a
\* nested call (line 25), before the interpreter's recursion limit is reached
MaxRetries == 1
\* calls of update_or_create_plex_playlist per behaviour
MaxRuns == 2

\* ------------------------------------------------------ program constants
\* limit passed to every search (plex.py:88, plex.py:92)
SearchLimit == 5
\* the similarity threshold 0.9 of plex.py:104 and plex.py:113, as 9/10
ThresholdNum == 9
ThresholdDen == 10

\* ----------------------------------------------------------------- strings
\* A string is a tuple of one-character strings.

\* the lower-case letter of each upper-case letter that occurs
Lowered ==
    "A" :> "a" @@ "B" :> "b" @@ "C" :> "c" @@ "D" :> "d" @@ "E" :> "e" @@
    "F" :> "f" @@ "G" :> "g" @@ "H" :> "h" @@ "I" :> "i" @@ "J" :> "j"

\* str.lower() on one character
LowerChar(c) == IF c \in DOMAIN Lowered THEN Lowered[c] ELSE c

\* str.lower()
RECURSIVE Lower(_)
Lower(s) ==
    IF s = <<>> THEN <<>>
    ELSE <<LowerChar(Head(s))>> \o Lower(Tail(s))

\* "(" occurs in the title: len(title.split("(")) > 1
HasParen(title) == \E p \in DOMAIN title : title[p] = "("

\* title.split("(")[0]: the characters before the first "(" (all of them when
\* there is none)
RECURSIVE SplitFirst(_)
SplitFirst(title) ==
    IF title = <<>> \/ Head(title) = "(" THEN <<>>
    ELSE <<Head(title)>> \o SplitFirst(Tail(title))

\* difflib.SequenceMatcher.quick_ratio: walk a, consuming the character counts
\* of b; every character of a still available in b is a match.
RECURSIVE CountMatches(_, _, _)
CountMatches(a, avail, j) ==
    IF j > Len(a) THEN 0
    ELSE LET numb == avail[a[j]]
         IN  (IF numb > 0 THEN 1 ELSE 0)
             + CountMatches(a, [avail EXCEPT ![a[j]] = numb - 1], j + 1)

\* quick_ratio as the fraction num/den: 2.0 * matches / (len(a) + len(b)), and
\* 1.0 when both strings are empty
QuickRatio(a, b) ==
    LET chars == {a[p] : p \in DOMAIN a} \cup {b[p] : p \in DOMAIN b}
        fullbcount == [c \in chars |-> Cardinality({p \in DOMAIN b : b[p] = c})]
        matches == CountMatches(a, fullbcount, 1)
        length == Len(a) + Len(b)
    IN  IF length > 0 THEN [num |-> 2 * matches, den |-> length]
        ELSE [num |-> 1, den |-> 1]

\* the threshold taken as a strict one: ratio > 0.9
AtLeastStrict(r) == r.num * ThresholdDen > ThresholdNum * r.den

\* ratio >= 0.9
AtLeast(r) == r.num * ThresholdDen >= ThresholdNum * r.den

\* ------------------------------------------------------------------ inputs
\* Track descriptors (helperClasses.Track: title, artist, album, url)
TrackA ==
    [title  |-> <<"s", "(", "r">>,
     artist |-> <<"A", "B", "C", "D", "E", "F", "G", "H", "I", "J">>,
     album  |-> <<"a", "b", "c">>,
     url    |-> "uA"]
TrackB ==
    [title  |-> <<"t">>,
     artist |-> <<"x", "y">>,
     album  |-> <<"A", "b", "c", "d", "e", "f", "g", "h", "i", "j">>,
     url    |-> "uB"]
TrackPool == {TrackA, TrackB}

\* the source playlists: every list of at most MaxTracks descriptors
TrackLists == UNION {[1..len -> TrackPool] : len \in 0..MaxTracks}

\* Catalog tracks the server's search can return.  artist()/album() either give
\* a title or fail with IndexError (ok = FALSE).
Candidates == {"K1", "K2", "K3", "K4", "K5", "K6"}
Artist(s) ==
    CASE s = "K1" -> [ok |-> TRUE, title |-> <<"a", "b", "c", "d", "e", "f", "g", "h", "i", "x">>]
      [] s = "K2" -> [ok |-> TRUE, title |-> <<"p", "q">>]
      [] s = "K3" -> [ok |-> TRUE, title |-> <<"a", "b", "c", "d", "e", "f", "g", "h", "x", "y">>]
      [] s = "K4" -> [ok |-> FALSE, title |-> <<>>]
      [] s = "K6" -> [ok |-> TRUE, title |-> <<"a", "b", "c", "d", "e", "f", "g", "h", "i", "j">>]
      [] OTHER    -> [ok |-> TRUE, title |-> <<"p", "q">>]
Album(s) ==
    CASE s = "K1" -> [ok |-> TRUE, title |-> <<"z", "z">>]
      [] s = "K2" -> [ok |-> TRUE, title |-> <<"a", "b", "c", "d", "e", "f", "g", "h", "i">>]
      [] s = "K3" -> [ok |-> TRUE, title |-> <<"a", "b">>]
      [] s = "K4" -> [ok |-> TRUE, title |-> <<"z", "z">>]
      [] s = "K6" -> [ok |-> TRUE, title |-> <<"a", "b", "c">>]
      [] OTHER    -> [ok |-> FALSE, title |-> <<>>]

\* the value None of a search that failed with BadRequest
NoneV == <<"None">>
\* what the server answers to one search string: BadRequest, or a result list
BadRequest == <<"BadRequest">>
\* two result lists: the first holds a match for TrackA, the second for TrackB
ResultsA == <<"K5", "K3", "K1", "K6">>
ResultsB == <<"K4", "K2">>
ResponsePool == {BadRequest, <<>>, ResultsA, ResultsB}
\* a search string the server has not been asked yet
Unqueried == <<"?">>

\* every search string the resolution can send
QueryStrings == {t.title : t \in TrackPool} \cup {SplitFirst(t.title) : t \in TrackPool}

\* the index that answers TrackA's title with r1, its prefix with r2 and
\* TrackB's title with r3
Catalog(r1, r2, r3) ==
    [q \in QueryStrings |->
        IF q = TrackA.title THEN r1
        ELSE IF q = SplitFirst(TrackA.title) THEN r2
        ELSE r3]

\* an index nobody has searched yet: every answer is still open
AnyCatalog == [q \in QueryStrings |-> Unqueried]

\* three libraries: both tracks are there, none is, only TrackA is (and the
\* search for TrackB's title is refused)
CatalogPool == {Catalog(ResultsA, <<>>, ResultsB), Catalog(<<>>, <<>>, <<>>),
                Catalog(ResultsB, ResultsA, BadRequest)}

\* The fields of the UserInputs and Playlist arguments.  An argument is fixed
\* for the behaviour; the model learns the value of a field when the code
\* first reads it and keeps it from then on.
Switches == {"append_instead_of_sync", "write_missing_as_csv",
             "add_playlist_description", "add_playlist_poster"}
Descriptions == {"", "d"}
Posters == {"", "u"}
PlaylistName == "P"
Unread == [f \in {} |-> TRUE]

\* obj.f reads as v: the value learnt before, or any value on the first read
Reads(obj, f, v) == f \in DOMAIN obj => obj[f] = v
Learn(obj, f, v) == IF f \in DOMAIN obj THEN obj ELSE obj @@ (f :> v)

\* a remote playlist object
NewPlaylist(items) == [items |-> items, summary |-> "", poster |-> ""]

\* no <name>.csv in /data
NoFile == <<"NoFile">>

\* line 55: the header row, the field names of Track
HeaderRow == <<"title", "artist", "album", "url">>

\* lines 53-59: what _write_csv leaves in the file
CsvRows(missing) ==
    <<HeaderRow>> \o [j \in DOMAIN missing |->
                        <<missing[j].title, missing[j].artist, missing[j].album,
                          missing[j].url>>]

\* ------------------------------------------------------------------- state
VARIABLES
    tracks,         \* the source playlist's descriptors (argument tracks)
    playlist,       \* the fields of the Playlist argument read so far
    userInputs,     \* the fields of the UserInputs argument read so far
    plexArg,        \* the handle the caller passes to update_or_create_plex_playlist
    index,          \* the server's search index: search string -> answer
    server,         \* the server's playlists titled playlist.name, oldest first
    csv,            \* /data/<name>.csv: NoFile or the rows written
    pc,             \* position in update_or_create_plex_playlist
    run,            \* calls of update_or_create_plex_playlist so far
    runs,           \* calls the caller makes in all
    fails,          \* failures injected so far
    retries,        \* failed attempts of the running createPlexServer call
    nextHandle,     \* the handle the next successful PlexServer(...) returns
    plex,           \* local plex of _get_available_plex_tracks / saveSearch
    i,              \* position of the for-loop over tracks (1-based)
    n,              \* which saveSearch call of the track is running: 1 or 2
    searchString,   \* argument searchString of the running saveSearch call
    search,         \* local search: NoneV or the candidate list
    plex_tracks,    \* local plex_tracks / available_tracks
    missing_tracks, \* local missing_tracks
    resolvedFrom,   \* history: positions of the descriptors behind plex_tracks
    missingFrom,    \* history: positions of the descriptors behind missing_tracks
    searchLog,      \* history: the current track's search and connect attempts
    examined,       \* history: per finished track, its candidates and verdicts
    opsLog,         \* history: this run's playlist and csv calls
    start,          \* history: server, csv and fails when this run began
    prev            \* history: how the previous run ended

vars == <<tracks, playlist, userInputs, plexArg, index, server, csv, pc, run, runs, fails,
          retries, nextHandle, plex, i, n, searchString, search, plex_tracks,
          missing_tracks, resolvedFrom, missingFrom, searchLog, examined, opsLog,
          start, prev>>

argVars == <<tracks, playlist, userInputs, plexArg>>
loopVars == <<i, n, searchString, search>>
resultVars == <<plex_tracks, missing_tracks, resolvedFrom, missingFrom>>
runVars == <<run, runs, start, prev>>

NoRun == [pc |-> "none", resolved |-> <<>>, missing |-> <<>>, server |-> <<>>,
          clean |-> FALSE]

\* The state before the first call, for given sets of arguments and
\* environments.  The caller holds handle 0 and will make `calls` calls.
InitWith(trackLists, catalogs, inputs, playlists, servers, files, calls) ==
    /\ tracks \in trackLists
    /\ playlist \in playlists
    /\ userInputs \in inputs
    /\ plexArg = 0
    /\ index \in catalogs
    /\ server \in servers
    /\ csv \in files
    /\ runs = calls
    /\ pc = "idle"
    /\ run = 0
    /\ fails = 0
    /\ retries = 0
    /\ nextHandle = 1
    /\ plex = 0
    /\ i = 0
    /\ n = 1
    /\ searchString = <<>>
    /\ search = <<>>
    /\ plex_tracks = <<>>
    /\ missing_tracks = <<>>
    /\ resolvedFrom = <<>>
    /\ missingFrom = <<>>
    /\ searchLog = <<>>
    /\ examined = <<>>
    /\ opsLog = <<>>
    /\ start = [server |-> server, csv |-> csv, fails |-> 0]
    /\ prev = NoRun

\* the server has no playlist of this name, or one holding a track X0
Servers == {<<>>, <<NewPlaylist(<<"X0">>)>>}
\* /data has no csv of this name, or one left by an earlier run
Files == {NoFile, CsvRows(<<TrackB>>)}

\* One call with any arguments, against the three libraries.
Init == InitWith(TrackLists, CatalogPool, {Unread}, {Unread}, Servers, Files, 1)

\* One call against any library, with the sync policy, the other switches on,
\* a description and a poster.
InitResolve ==
    InitWith(TrackLists, {AnyCatalog},
             {[f \in Switches |-> f # "append_instead_of_sync"]},
             {[description |-> "d", poster |-> "u"]},
             Servers, {NoFile}, 1)

\* MaxRuns calls in a row with the same arguments against the same library,
\* for a playlist without description and poster.
InitTwice ==
    InitWith(TrackLists, CatalogPool, {Unread}, {[description |-> "", poster |-> ""]},
             Servers, {NoFile}, MaxRuns)

\* python truthiness of search: neither None nor []
Truthy(s) == s # NoneV /\ s # <<>>

\* line 168 without its test: the playlist is updated whatever was found
AfterResolveAlways(available) == "update"

\* line 168: a non-empty available_tracks goes on to the playlist, an empty one
\* skips it
AfterResolve(available) == IF available # <<>> THEN "update" ELSE "csv"

\* line 85 leaving the loop after the first track it finishes
AfterTrackLeaves(j, available) == AfterResolve(available)

\* where the for-loop over tracks goes after finishing track number j
AfterTrack(j, available) == IF j < Len(tracks) THEN "search" ELSE AfterResolve(available)

\* the run ended without an injected failure
Clean == pc = "done" /\ fails = start.fails

\* The for-loop over tracks moves on from track number j (0: it starts): the
\* next track begins with search = [] (line 86) and the call of line 88, or the
\* loop ends and line 168 decides.
GoTrack(j, available) ==
    /\ pc' = AfterTrack(j, available)
    /\ i' = IF j < Len(tracks) THEN j + 1 ELSE j
    /\ n' = 1
    /\ searchString' = IF j < Len(tracks) THEN tracks[j + 1].title ELSE <<>>
    /\ search' = <<>>
    /\ searchLog' = <<>>

\* update_or_create_plex_playlist is called (line 167); _get_available_plex_tracks
\* starts with empty lists (line 84) and the caller's handle.
Begin ==
    /\ pc \in {"idle", "done", "raised"}
    /\ run < runs
    /\ run' = run + 1
    /\ prev' = IF pc = "idle" THEN NoRun
               ELSE [pc |-> pc, resolved |-> plex_tracks, missing |-> missing_tracks,
                     server |-> server, clean |-> Clean]
    /\ start' = [server |-> server, csv |-> csv, fails |-> fails]
    /\ plex' = plexArg
    /\ plex_tracks' = <<>>
    /\ missing_tracks' = <<>>
    /\ resolvedFrom' = <<>>
    /\ missingFrom' = <<>>
    /\ examined' = <<>>
    /\ opsLog' = <<>>
    /\ retries' = 0
    /\ GoTrack(0, <<>>)
    /\ UNCHANGED <<argVars, index, server, csv, runs, fails, nextHandle>>

\* ------------------------------------------------- saveSearch, createPlexServer
SearchEvent(res) ==
    [op |-> "search", h |-> plex, q |-> searchString, mediatype |-> "track",
     limit |-> SearchLimit, track |-> i, call |-> n, res |-> res]
OpenEvent(h, res) ==
    [op |-> "open", h |-> h, q |-> <<>>, mediatype |-> "", limit |-> 0,
     track |-> i, call |-> n, res |-> res]

\* line 90 without its test for None: a search that failed with BadRequest
\* counts as an empty result
RetryAlsoAfterNone(first, title) == first = NoneV \/ first = <<>> \/ HasParen(title)

\* line 90 without its test for an empty result
RetryOnlyWithParen(first, title) == first # NoneV /\ HasParen(title)

\* line 90 without its test for a "(" in the title
RetryOnlyWhenEmpty(first, title) == first # NoneV /\ first = <<>>

\* line 90: the second search is made when the first returned a list that is
\* empty, or returned a list and the title holds a "("
Retry(first, title) == first # NoneV /\ (first = <<>> \/ HasParen(title))

\* saveSearch returns ret (a list, or NoneV) to _get_available_plex_tracks:
\* lines 88-94
Returned(ret) ==
    IF n = 1
    THEN /\ search' = ret
         /\ IF Retry(ret, tracks[i].title)
            THEN /\ n' = 2
                 /\ searchString' = SplitFirst(tracks[i].title)
                 /\ pc' = "search"
            ELSE /\ pc' = "match"
                 /\ UNCHANGED <<n, searchString>>
    ELSE /\ search' = IF ret # NoneV THEN search \o ret ELSE search
         /\ pc' = "match"
         /\ UNCHANGED <<n, searchString>>

searchFrame == <<argVars, server, csv, resultVars, examined, opsLog, runVars>>

\* line 29: plexServer.search answers with a result list
SearchReturns ==
    /\ pc = "search"
    /\ \E r \in ResponsePool \ {BadRequest} :
          /\ index[searchString] \in {Unqueried, r}
          /\ index' = [index EXCEPT ![searchString] = r]
          /\ Returned(r)
    /\ searchLog' = Append(searchLog, SearchEvent("ok"))
    /\ UNCHANGED <<searchFrame, fails, retries, nextHandle, plex, i>>

\* lines 30-32: plexServer.search raises BadRequest; None is returned with the
\* handle that was passed in
SearchBadRequest ==
    /\ pc = "search"
    /\ index[searchString] \in {Unqueried, BadRequest}
    /\ index' = [index EXCEPT ![searchString] = BadRequest]
    /\ Returned(NoneV)
    /\ searchLog' = Append(searchLog, SearchEvent("BadRequest"))
    /\ UNCHANGED <<searchFrame, fails, retries, nextHandle, plex, i>>

\* lines 33-35: plexServer.search raises anything else; createPlexServer is called
SearchError ==
    /\ pc = "search"
    /\ fails < MaxFailures
    /\ fails' = fails + 1
    /\ searchLog' = Append(searchLog, SearchEvent("Error"))
    /\ pc' = "connect"
    /\ retries' = 0
    /\ UNCHANGED <<searchFrame, index, nextHandle, plex, loopVars>>

\* lines 35-36 with the search repeated on the handle that failed
ReconnectedStale(old, new) == old

\* lines 35-36: the handle the search is repeated on, given the one that failed
\* and the one createPlexServer returned
Reconnected(old, new) == new

\* lines 19-21 and 35-36: PlexServer(...) succeeds; saveSearch calls itself with
\* the new handle and the same searchString, mediatype and limit
ConnectReturns ==
    /\ pc = "connect"
    /\ plex' = Reconnected(plex, nextHandle)
    /\ nextHandle' = nextHandle + 1
    /\ searchLog' = Append(searchLog, OpenEvent(nextHandle, "ok"))
    /\ pc' = "search"
    /\ UNCHANGED <<searchFrame, index, fails, retries, loopVars>>

\* lines 22-25: PlexServer(...) raises; after the sleep createPlexServer calls itself
ConnectError ==
    /\ pc = "connect"
    /\ retries < MaxRetries
    /\ retries' = retries + 1
    /\ searchLog' = Append(searchLog, OpenEvent(plex, "Error"))
    /\ UNCHANGED <<searchFrame, index, pc, fails, nextHandle, plex, loopVars>>

\* line 25 at the depth where the interpreter's recursion limit is reached (here
\* after MaxRetries nested calls): the attempt fails like the others, the call
\* of line 25 raises RecursionError inside the except block, and the error
\* passes through every createPlexServer frame and through saveSearch, whose
\* handlers are all in their except blocks, to the caller
ConnectRecursionError ==
    /\ pc = "connect"
    /\ retries = MaxRetries
    /\ searchLog' = Append(searchLog, OpenEvent(plex, "Error"))
    /\ pc' = "raised"
    /\ UNCHANGED <<searchFrame, index, fails, retries, nextHandle, plex, loopVars>>

\* --------------------------------------------- _get_available_plex_tracks: matching
\* lines 100-102 and 109-111: the quick_ratio of the lower-cased titles, for
\* every candidate whose artist (album) reads and every descriptor, computed once
ArtistRatios ==
    {<<s, t, QuickRatio(Lower(Artist(s).title), Lower(t.artist))>> :
        s \in {c \in Candidates : Artist(c).ok}, t \in TrackPool}
AlbumRatios ==
    {<<s, t, QuickRatio(Lower(Album(s).title), Lower(t.album))>> :
        s \in {c \in Candidates : Album(c).ok}, t \in TrackPool}
artist_similarity(s, track) ==
    (CHOOSE e \in ArtistRatios : e[1] = s /\ e[2] = track)[3]
album_similarity(s, track) ==
    (CHOOSE e \in AlbumRatios : e[1] = s /\ e[2] = track)[3]

\* lines 99-123 for one candidate s: "artist" (line 104), "album" (line 113),
\* "skip" (IndexError, line 118) or "reject" (the loop goes on)
Verdict(s, track) ==
    IF ~Artist(s).ok THEN "skip"
    ELSE IF AtLeast(artist_similarity(s, track)) THEN "artist"
    ELSE IF ~Album(s).ok THEN "skip"
    ELSE IF AtLeast(album_similarity(s, track)) THEN "album"
    ELSE "reject"

\* the verdicts after which line 105 or 114 takes the candidate and breaks
Accepting == {"artist", "album"}

\* lines 98-123 without the breaks of lines 107 and 116: every candidate is
\* examined
RECURSIVE ScanNoBreak(_, _, _)
ScanNoBreak(list, track, j) ==
    IF j > Len(list) THEN <<>>
    ELSE <<[cand |-> list[j], verdict |-> Verdict(list[j], track)]>>
         \o ScanNoBreak(list, track, j + 1)

\* lines 98-123: the for-loop over search from position j, as the candidates it
\* examines with their verdicts; it stops at the first accepted one
RECURSIVE Scan(_, _, _)
Scan(list, track, j) ==
    IF j > Len(list) THEN <<>>
    ELSE LET v == Verdict(list[j], track)
         IN  IF v \in Accepting THEN <<[cand |-> list[j], verdict |-> v]>>
             ELSE <<[cand |-> list[j], verdict |-> v]>> \o Scan(list, track, j + 1)

\* lines 105 and 114 putting the track at the front of the list
ExtendFront(list, s) == <<s>> \o list

\* lines 105 and 114: plex_tracks.extend(s); iterating a plexapi track yields
\* the track itself, so the list grows by that one track, at its end
Extend(list, s) == Append(list, s)

\* line 124 without its test: every descriptor goes to missing_tracks
MissedAlways(found) == TRUE

\* line 124: the descriptor goes to missing_tracks when found is still False
Missed(found) == ~found

\* lines 96-125: the candidates of search are examined in order; the first
\* accepted one is added to plex_tracks (extend of one track adds that track),
\* and the descriptor is added to missing_tracks when none is
Match ==
    /\ pc = "match"
    /\ LET seen == IF Truthy(search) THEN Scan(search, tracks[i], 1) ELSE <<>>
           found == seen # <<>> /\ seen[Len(seen)].verdict \in Accepting
       IN  /\ examined' = Append(examined, [search |-> search, seen |-> seen])
           /\ IF found
              THEN /\ plex_tracks' = Extend(plex_tracks, seen[Len(seen)].cand)
                   /\ resolvedFrom' = Append(resolvedFrom, i)
              ELSE UNCHANGED <<plex_tracks, resolvedFrom>>
           /\ IF Missed(found)
              THEN /\ missing_tracks' = Append(missing_tracks, tracks[i])
                   /\ missingFrom' = Append(missingFrom, i)
              ELSE UNCHANGED <<missing_tracks, missingFrom>>
    /\ GoTrack(i, plex_tracks')
    /\ UNCHANGED <<argVars, index, server, csv, fails, retries, nextHandle, plex,
                   opsLog, runVars>>

\* lines 100-111: artist() or album() of an examined candidate raises something
\* other than IndexError, which nothing in _get_available_plex_tracks catches
MatchError ==
    /\ pc = "match"
    /\ Truthy(search)
    /\ fails < MaxFailures
    /\ fails' = fails + 1
    /\ pc' = "raised"
    /\ UNCHANGED <<argVars, index, server, csv, retries, nextHandle, plex, loopVars,
                   resultVars, searchLog, examined, opsLog, runVars>>

\* ------------------------------------------------------- the remote playlist
\* A call made through the handle update_or_create_plex_playlist holds (its
\* argument plex) or through the playlist object fetched with it.
Op(op, res) == [op |-> op, h |-> plexArg, res |-> res]

\* the failures a call inside the try of lines 169-175 can end with: NotFound is
\* caught by line 177, anything else is not
FailureKinds == {"NotFound", "Error"}

\* line 177 for a failure inside the try: NotFound goes on to createPlaylist,
\* anything else leaves update_or_create_plex_playlist
AfterFailure(kind) == IF kind = "NotFound" THEN "create" ELSE "raised"

\* line 148 with the policies swapped
AfterLookupSwapped(append) == IF append THEN "remove" ELSE "add"

\* line 148 without the removal
AfterLookupAlwaysAdd(append) == "add"

\* line 148: sync removes first, append adds at once
AfterLookup(append) == IF append THEN "add" ELSE "remove"

playlistFrame == <<tracks, plexArg, index, csv, retries, nextHandle, plex, loopVars,
                   resultVars, searchLog, examined, runVars>>

\* lines 170-175: the arguments of _update_plex_playlist are evaluated, which
\* reads userInputs.append_instead_of_sync
CallUpdate ==
    /\ pc = "update"
    /\ \E append \in BOOLEAN :
          /\ Reads(userInputs, "append_instead_of_sync", append)
          /\ userInputs' = Learn(userInputs, "append_instead_of_sync", append)
    /\ pc' = "lookup"
    /\ UNCHANGED <<playlistFrame, playlist, server, fails, opsLog>>

\* line 147: plex.playlist(playlist.name); NotFound when no playlist has the name
Lookup ==
    /\ pc = "lookup"
    /\ IF server # <<>>
       THEN /\ pc' = AfterLookup(userInputs.append_instead_of_sync)
            /\ opsLog' = Append(opsLog, Op("playlist", "ok"))
       ELSE /\ pc' = AfterFailure("NotFound")
            /\ opsLog' = Append(opsLog, Op("playlist", "NotFound"))
    /\ UNCHANGED <<playlistFrame, playlist, userInputs, server, fails>>

\* line 147: plex.playlist raises something other than NotFound
LookupError ==
    /\ pc = "lookup"
    /\ fails < MaxFailures
    /\ fails' = fails + 1
    /\ pc' = AfterFailure("Error")
    /\ opsLog' = Append(opsLog, Op("playlist", "Error"))
    /\ UNCHANGED <<playlistFrame, playlist, userInputs, server>>

\* line 149: plex_playlist.removeItems(plex_playlist.items())
RemoveItems ==
    /\ pc = "remove"
    /\ server' = [server EXCEPT ![1].items = <<>>]
    /\ pc' = "add"
    /\ opsLog' = Append(opsLog, Op("removeItems", "ok"))
    /\ UNCHANGED <<playlistFrame, playlist, userInputs, fails>>

\* line 149 raises; the playlist keeps its items
RemoveItemsError ==
    /\ pc = "remove"
    /\ fails < MaxFailures
    /\ fails' = fails + 1
    /\ \E kind \in FailureKinds :
          /\ pc' = AfterFailure(kind)
          /\ opsLog' = Append(opsLog, Op("removeItems", kind))
    /\ UNCHANGED <<playlistFrame, playlist, userInputs, server>>

\* line 150: plex_playlist.addItems(available_tracks); lines 151 and 176
AddItems ==
    /\ pc = "add"
    /\ server' = [server EXCEPT ![1].items = @ \o plex_tracks]
    /\ pc' = "describe"
    /\ opsLog' = Append(opsLog, Op("addItems", "ok"))
    /\ UNCHANGED <<playlistFrame, playlist, userInputs, fails>>

\* line 150 raises; nothing is added
AddItemsError ==
    /\ pc = "add"
    /\ fails < MaxFailures
    /\ fails' = fails + 1
    /\ \E kind \in FailureKinds :
          /\ pc' = AfterFailure(kind)
          /\ opsLog' = Append(opsLog, Op("addItems", kind))
    /\ UNCHANGED <<playlistFrame, playlist, userInputs, server>>

\* line 178: plex.createPlaylist(title=playlist.name, items=available_tracks)
CreatePlaylist ==
    /\ pc = "create"
    /\ server' = Append(server, NewPlaylist(plex_tracks))
    /\ pc' = "fetch"
    /\ opsLog' = Append(opsLog, Op("createPlaylist", "ok"))
    /\ UNCHANGED <<playlistFrame, playlist, userInputs, fails>>

\* line 178 raises inside the except block: nothing catches it
CreatePlaylistError ==
    /\ pc = "create"
    /\ fails < MaxFailures
    /\ fails' = fails + 1
    /\ pc' = "raised"
    /\ opsLog' = Append(opsLog, Op("createPlaylist", "Error"))
    /\ UNCHANGED <<playlistFrame, playlist, userInputs, server>>

\* line 180: plex.playlist(playlist.name) after the creation gives the oldest
\* playlist of the name
Fetch ==
    /\ pc = "fetch"
    /\ pc' = "describe"
    /\ opsLog' = Append(opsLog, Op("playlist", "ok"))
    /\ UNCHANGED <<playlistFrame, playlist, userInputs, server, fails>>

\* line 180 raises inside the except block: nothing catches it
FetchError ==
    /\ pc = "fetch"
    /\ fails < MaxFailures
    /\ fails' = fails + 1
    /\ pc' = "raised"
    /\ opsLog' = Append(opsLog, Op("playlist", "Error"))
    /\ UNCHANGED <<playlistFrame, playlist, userInputs, server>>

\* lines 182 and 190 without the test of the value: an empty description or
\* poster counts as present
PresentAlways(value) == TRUE

\* lines 182 and 190: python truthiness of playlist.description, playlist.poster
Present(value) == value # ""

\* an edit of the fetched playlist: it succeeds, or it raises and is logged
\* (lines 185 and 193)
Edit(op, changed) ==
    \/ /\ server' = changed
       /\ opsLog' = Append(opsLog, Op(op, "ok"))
       /\ UNCHANGED fails
    \/ /\ fails < MaxFailures
       /\ fails' = fails + 1
       /\ opsLog' = Append(opsLog, Op(op, "Error"))
       /\ UNCHANGED server

\* lines 182-189: the description, when there is one and the switch is on
Describe ==
    /\ pc = "describe"
    /\ pc' = "poster"
    /\ \E d \in Descriptions :
          /\ Reads(playlist, "description", d)
          /\ playlist' = Learn(playlist, "description", d)
          /\ IF ~Present(d)
             THEN UNCHANGED <<userInputs, server, opsLog, fails>>
             ELSE \E add \in BOOLEAN :
                     /\ Reads(userInputs, "add_playlist_description", add)
                     /\ userInputs' = Learn(userInputs, "add_playlist_description", add)
                     /\ IF add
                        THEN Edit("edit", [server EXCEPT ![1].summary = d])
                        ELSE UNCHANGED <<server, opsLog, fails>>
    /\ UNCHANGED playlistFrame

\* lines 190-199: the poster, when there is one and the switch is on
Poster ==
    /\ pc = "poster"
    /\ pc' = "csv"
    /\ \E u \in Posters :
          /\ Reads(playlist, "poster", u)
          /\ playlist' = Learn(playlist, "poster", u)
          /\ IF ~Present(u)
             THEN UNCHANGED <<userInputs, server, opsLog, fails>>
             ELSE \E add \in BOOLEAN :
                     /\ Reads(userInputs, "add_playlist_poster", add)
                     /\ userInputs' = Learn(userInputs, "add_playlist_poster", add)
                     /\ IF add
                        THEN Edit("uploadPoster", [server EXCEPT ![1].poster = u])
                        ELSE UNCHANGED <<server, opsLog, fails>>
    /\ UNCHANGED playlistFrame

\* ------------------------------------------------------------ the missing csv
\* lines 207-226: write the csv when tracks are missing, delete it when none is;
\* a failure of either is logged
MissingCsv ==
    /\ pc = "csv"
    /\ pc' = "done"
    /\ \E write \in BOOLEAN :
          /\ Reads(userInputs, "write_missing_as_csv", write)
          /\ userInputs' = Learn(userInputs, "write_missing_as_csv", write)
          /\ IF ~write
             THEN UNCHANGED <<csv, opsLog, fails>>
             ELSE IF missing_tracks # <<>>
             THEN \/ /\ csv' = CsvRows(missing_tracks)
                     /\ opsLog' = Append(opsLog, Op("write", "ok"))
                     /\ UNCHANGED fails
                  \/ /\ fails < MaxFailures
                     /\ fails' = fails + 1
                     /\ opsLog' = Append(opsLog, Op("write", "Error"))
                     /\ UNCHANGED csv
             ELSE \/ /\ csv # NoFile
                     /\ csv' = NoFile
                     /\ opsLog' = Append(opsLog, Op("delete", "ok"))
                     /\ UNCHANGED fails
                  \/ /\ csv = NoFile
                     /\ opsLog' = Append(opsLog, Op("delete", "FileNotFound"))
                     /\ UNCHANGED <<csv, fails>>
                  \/ /\ csv # NoFile
                     /\ fails < MaxFailures
                     /\ fails' = fails + 1
                     /\ opsLog' = Append(opsLog, Op("delete", "Error"))
                     /\ UNCHANGED csv
    /\ UNCHANGED <<tracks, playlist, plexArg, index, server, retries, nextHandle, plex,
                   loopVars, resultVars, searchLog, examined, runVars>>

\* ------------------------------------------------------------ specification
Next ==
    \/ Begin
    \/ SearchReturns
    \/ SearchBadRequest
    \/ SearchError
    \/ ConnectReturns
    \/ ConnectError
    \/ ConnectRecursionError
    \/ Match
    \/ MatchError
    \/ CallUpdate
    \/ Lookup
    \/ LookupError
    \/ RemoveItems
    \/ RemoveItemsError
    \/ AddItems
    \/ AddItemsError
    \/ CreatePlaylist
    \/ CreatePlaylistError
    \/ Fetch
    \/ FetchError
    \/ Describe
    \/ Poster
    \/ MissingCsv

Spec == Init /\ [][Next]_vars
SpecResolve == InitResolve /\ [][Next]_vars
SpecTwice == InitTwice /\ [][Next]_vars

\* ---------------------------------------------------------------- properties
\* _get_available_plex_tracks has returned in this run (line 127)
ResolutionDone ==
    /\ pc \notin {"idle", "search", "connect", "match"}
    /\ Len(examined) = Len(tracks)

Range(seq) == {seq[j] : j \in DOMAIN seq}

\* C1: once resolution has completed, every descriptor is classified exactly
\* once: resolved and missing together are as long as tracks, every position
\* of tracks is behind a resolved track or in missing, and none is both.
C1_ClassifiedOnce ==
    ResolutionDone =>
        /\ Len(plex_tracks) + Len(missing_tracks) = Len(tracks)
        /\ Len(resolvedFrom) = Len(plex_tracks)
        /\ Len(missingFrom) = Len(missing_tracks)
        /\ Range(resolvedFrom) \cap Range(missingFrom) = {}
        /\ Range(resolvedFrom) \cup Range(missingFrom) = DOMAIN tracks
        /\ \A j \in DOMAIN missingFrom : missing_tracks[j] = tracks[missingFrom[j]]

C1_Witness ==
    /\ ResolutionDone
    /\ plex_tracks # <<>>
    /\ missing_tracks # <<>>

\* the playlist found by line 147 was updated: addItems returned
Updated == \E j \in DOMAIN opsLog : opsLog[j].op = "addItems" /\ opsLog[j].res = "ok"

\* C2: when an existing playlist holding X has been updated with a non-empty
\* resolved list Y, it holds exactly Y under the sync policy and X followed by
\* Y under the append policy.
C2_AppendVsSync ==
    (Updated /\ start.server # <<>> /\ plex_tracks # <<>>) =>
        /\ Len(server) = Len(start.server)
        /\ server[1].items =
              IF userInputs["append_instead_of_sync"]
              THEN start.server[1].items \o plex_tracks
              ELSE plex_tracks

C2_Witness ==
    /\ pc = "done"
    /\ Updated
    /\ start.server # <<>>
    /\ start.server[1].items # <<>>
    /\ userInputs["append_instead_of_sync"]
    /\ server[1].items = start.server[1].items \o plex_tracks

\* the searches of the current track that returned to _get_available_plex_tracks
IsAnswer(e) == e.op = "search" /\ e.res # "Error"
Issued == SelectSeq(searchLog, IsAnswer)

\* q is what stands in title before its first "("
PrefixBeforeParen(q, title) ==
    \E m \in DOMAIN title :
        /\ title[m] = "("
        /\ \A l \in 1..(m - 1) : title[l] # "("
        /\ q = SubSeq(title, 1, m - 1)

\* the first search of the current track returned a non-empty list
FirstNonEmpty == Issued # <<>> /\ Issued[1].res = "ok" /\ search # <<>> /\ search # NoneV

High(r) == r.num * ThresholdDen >= r.den * ThresholdNum
ArtistHigh(c, t) == High(artist_similarity(c, t))
AlbumHigh(c, t) == High(album_similarity(c, t))

\* the candidate list of a finished track
Listed(e) == IF Truthy(e.search) THEN e.search ELSE <<>>

\* the candidate at position p was the one taken for track j
Taken(j, p) ==
    /\ p = Len(examined[j].seen)
    /\ examined[j].seen[p].verdict \in Accepting
    /\ \E r \in DOMAIN resolvedFrom :
          resolvedFrom[r] = j /\ plex_tracks[r] = examined[j].seen[p].cand

\* C4: of the candidates examined for a track, one whose artist reads and is
\* similar enough is taken whatever its album; one whose artist is not but
\* whose album is, is taken; one with both below 0.9 is rejected and the next
\* candidate of the list is examined.  The track is missing exactly when no
\* candidate of its list was taken.
C4_Threshold ==
    \A j \in DOMAIN examined :
        LET e == examined[j]
            t == tracks[j]
        IN  /\ Len(e.seen) <= Len(Listed(e))
            /\ \A p \in DOMAIN e.seen :
                  LET c == e.seen[p].cand
                  IN  /\ c = Listed(e)[p]
                      /\ (Artist(c).ok /\ ArtistHigh(c, t)) => Taken(j, p)
                      /\ (Artist(c).ok /\ ~ArtistHigh(c, t) /\ Album(c).ok
                            /\ AlbumHigh(c, t)) => Taken(j, p)
                      /\ (Artist(c).ok /\ ~ArtistHigh(c, t) /\ Album(c).ok
                            /\ ~AlbumHigh(c, t)) =>
                            /\ e.seen[p].verdict = "reject"
                            /\ p < Len(Listed(e)) => Len(e.seen) > p
            /\ (j \in Range(missingFrom)) <=>
                  (/\ Len(e.seen) = Len(Listed(e))
                   /\ \A p \in DOMAIN e.seen : ~Taken(j, p))

C4_Witness ==
    /\ Len(examined) = 2
    /\ \E p \in DOMAIN examined[1].seen :
          /\ examined[1].seen[p].verdict = "reject"
          /\ Taken(1, p + 1)
          /\ examined[1].seen[p + 1].verdict = "artist"
    /\ \E p \in DOMAIN examined[2].seen :
          /\ Taken(2, p)
          /\ examined[2].seen[p].verdict = "album"

\* the calls that reach the server's playlists
PlaylistOps == {"playlist", "removeItems", "addItems", "createPlaylist", "edit",
                "uploadPoster"}

\* C5: when nothing was resolved, no playlist is looked up, changed or created
\* and no description or poster is set: the server's playlists are as they
\* were when the run began.
C5_EmptyResolution ==
    (ResolutionDone /\ plex_tracks = <<>>) =>
        /\ pc \in {"csv", "done"}
        /\ server = start.server
        /\ \A j \in DOMAIN opsLog : opsLog[j].op \notin PlaylistOps

C5_Witness ==
    /\ pc = "done"
    /\ tracks # <<>>
    /\ plex_tracks = <<>>
    /\ server = <<>>

\* the same search: string, media type, limit, track and call
SameQuery(a, b) ==
    /\ a.q = b.q
    /\ a.mediatype = b.mediatype
    /\ a.limit = b.limit
    /\ a.track = b.track
    /\ a.call = b.call

\* C7: a search that raised a connection error is followed by connection
\* attempts only, until one returns a handle; the same search is then made on
\* that handle, and a search that was answered is not made again.  The next
\* step of the track is not taken with an error left unanswered.
C7_Recovery ==
    /\ \A j \in DOMAIN searchLog :
          (searchLog[j].op = "search" /\ searchLog[j].res = "Error") =>
             /\ j < Len(searchLog) => searchLog[j + 1].op = "open"
             /\ \A m \in (j + 1)..Len(searchLog) :
                   (/\ searchLog[m].op = "search"
                    /\ \A l \in (j + 1)..(m - 1) : searchLog[l].op = "open") =>
                      /\ m > j + 1
                      /\ searchLog[m - 1].res = "ok"
                      /\ \A l \in (j + 1)..(m - 2) : searchLog[l].res = "Error"
                      /\ searchLog[m].h = searchLog[m - 1].h
                      /\ searchLog[m].h # searchLog[j].h
                      /\ SameQuery(searchLog[m], searchLog[j])
    /\ \A j \in DOMAIN searchLog :
          (searchLog[j].op = "search" /\ searchLog[j].res # "Error") =>
             \A m \in (j + 1)..Len(searchLog) :
                searchLog[m].op = "search" => searchLog[m].call > searchLog[j].call
    /\ \A j \in DOMAIN searchLog : searchLog[j].track = i
    /\ pc = "match" => IsAnswer(searchLog[Len(searchLog)])

C7_Witness ==
    \E j \in DOMAIN searchLog :
        /\ j + 3 <= Len(searchLog)
        /\ searchLog[j].op = "search" /\ searchLog[j].res = "Error"
        /\ searchLog[j + 1].op = "open" /\ searchLog[j + 1].res = "Error"
        /\ searchLog[j + 2].op = "open" /\ searchLog[j + 2].res = "ok"
        /\ searchLog[j + 3].op = "search" /\ searchLog[j + 3].res = "ok"
        /\ searchLog[j + 3].h = searchLog[j + 2].h

\* userInputs.write_missing_as_csv is on
WriteOn ==
    /\ "write_missing_as_csv" \in DOMAIN userInputs
    /\ userInputs["write_missing_as_csv"]

\* neither _write_csv nor _delete_csv failed on a file that was there
NoSinkFailure ==
    \A j \in DOMAIN opsLog :
        opsLog[j].op \in {"write", "delete"} => opsLog[j].res # "Error"

\* the csv is there exactly when tracks are missing, and holds them
CsvMatchesMissing ==
    /\ (csv # NoFile) <=> (missing_tracks # <<>>)
    /\ missing_tracks # <<>> => csv = CsvRows(missing_tracks)

\* C6: with write_missing_as_csv on and no I/O failure, when a run that has
\* resolved its tracks is over, however it went on, the csv exists exactly when
\* that run had missing tracks, and then holds exactly those.
C6_MissingRecord ==
    (pc \in {"done", "raised"} /\ ResolutionDone /\ WriteOn /\ NoSinkFailure) =>
        CsvMatchesMissing

\* what holds of the code: the same for the runs that reach line 207, whether
\* the playlist was skipped, updated or created
CsvAfterCompletedRun ==
    (pc = "done" /\ WriteOn /\ NoSinkFailure) => CsvMatchesMissing

\* the items of each of the server's playlists
ItemsOf(srv) == [j \in DOMAIN srv |-> srv[j].items]

\* the run did not read the append switch as on
SyncPolicy ==
    "append_instead_of_sync" \in DOMAIN userInputs
        => ~userInputs["append_instead_of_sync"]

\* C8: a second run with the same source playlist against the same library,
\* both without failure, resolves and misses the same tracks as the first,
\* and under the sync policy leaves the server's playlist items as the first
\* run left them.
C8_Idempotent ==
    (run >= 2 /\ Clean /\ prev.clean) =>
        /\ plex_tracks = prev.resolved
        /\ missing_tracks = prev.missing
        /\ SyncPolicy => ItemsOf(server) = ItemsOf(prev.server)

C8_Witness ==
    /\ run = 2
    /\ Clean
    /\ prev.clean
    /\ plex_tracks # <<>>
    /\ missing_tracks # <<>>
    /\ "append_instead_of_sync" \in DOMAIN userInputs
    /\ ~userInputs["append_instead_of_sync"]
    /\ start.server # <<>>
    /\ server[1].items = plex_tracks

\* the handle most recently returned before position j of the current track's
\* log: that of the last successful connection attempt, if there is one
Latest(j) ==
    LET opened == {l \in 1..(j - 1) : searchLog[l].op = "open" /\ searchLog[l].res = "ok"}
    IN  IF opened = {} THEN searchLog[j].h
        ELSE searchLog[CHOOSE l \in opened : \A l2 \in opened : l2 <= l].h

\* C9: every search is made on the handle most recently returned, and so is
\* every call that reaches the server's playlists: after resolution that is
\* the handle held in plex.
C9_FreshHandle ==
    /\ \A j \in DOMAIN searchLog :
          searchLog[j].op = "search" => searchLog[j].h = Latest(j)
    /\ \A j \in DOMAIN opsLog :
          opsLog[j].op \in PlaylistOps => opsLog[j].h = plex

\* C10: no failure of a remote call or of the csv leaves
\* update_or_create_plex_playlist with an exception.
C10_NeverRaises == pc # "raised"

\* the searches of the current track that failed with BadRequest
BadRequests ==
    {j \in DOMAIN searchLog :
        searchLog[j].op = "search" /\ searchLog[j].res = "BadRequest"}

\* C11: a search that fails with BadRequest is the end of its saveSearch call:
\* None comes back (the first call leaves search at None, the second leaves
\* the candidates of the first as they were) with the handle the search was
\* made on, no connection is opened after it, and the same search string is
\* not searched again for the track.
C11_BadRequest ==
    \A j \in BadRequests :
        /\ pc \notin {"search", "connect"}
        /\ plex = searchLog[j].h
        /\ searchLog[j].call = 1 => search = NoneV
        /\ searchLog[j].call = 2 => search = index[tracks[i].title]
        /\ \A l \in DOMAIN searchLog :
              l > j => /\ searchLog[l].op # "open"
                       /\ searchLog[l].q # searchLog[j].q

C11_Witness ==
    /\ pc = "match"
    /\ search = NoneV
    /\ plex # plexArg
    /\ \E j \in BadRequests : searchLog[j].h = plex /\ j > 1

\* the calls of this run with the given name, whatever their outcome
Calls(op) == {j \in DOMAIN opsLog : opsLog[j].op = op}
\* those that succeeded
Done(op) == {j \in Calls(op) : opsLog[j].res = "ok"}

\* lines 169-180 are behind: the playlist was updated or created
PlaylistSettled == pc \in {"describe", "poster", "csv", "done"} /\ plex_tracks # <<>>

\* C12: with something resolved, createPlaylist is called exactly when the
\* server had no playlist of the name, and the playlist it creates holds
\* exactly the resolved tracks; a run never changes the items of a playlist
\* and creates another one of the same name.
C12_CreateOnlyWhenAbsent ==
    /\ Calls("createPlaylist") # {} => start.server = <<>>
    /\ (PlaylistSettled /\ start.server = <<>>) => Done("createPlaylist") # {}
    /\ (pc = "fetch") => server[Len(server)].items = plex_tracks
    /\ ~(Calls("createPlaylist") # {} /\ Done("removeItems") \cup Done("addItems") # {})

\* what holds of the code: createPlaylist is called exactly after a call of
\* lines 147-150 raised NotFound, and seeds the new playlist with plex_tracks
CreateAfterNotFound ==
    /\ Calls("createPlaylist") # {} <=>
          (\E j \in DOMAIN opsLog :
              /\ opsLog[j].op \in {"playlist", "removeItems", "addItems"}
              /\ opsLog[j].res = "NotFound"
              /\ pc # "create")
    /\ (pc = "fetch") => server[Len(server)].items = plex_tracks
    /\ Cardinality(Calls("createPlaylist")) <= 1

\* the last event of the current track's log is a connection attempt
InAcquire == searchLog # <<>> /\ searchLog[Len(searchLog)].op = "open"

\* C13: createPlexServer does not raise: every failed attempt is followed by
\* another attempt, so a run is never ended by a connection attempt.
C13_AcquireNeverRaises == ~(pc = "raised" /\ InAcquire)

\* what holds of the code: createPlexServer returns no failure, a failed
\* attempt below the recursion limit leaves it attempting, and the handle it
\* returns is that of its first successful attempt, on which the search is
\* repeated
AcquireReturnsFirstSuccess ==
    \A j \in DOMAIN searchLog :
        searchLog[j].op = "open" =>
            /\ searchLog[j].res \in {"ok", "Error"}
            /\ (searchLog[j].res = "Error" /\ j = Len(searchLog)) =>
                  pc \in {"connect", "raised"}
            /\ (searchLog[j].res = "ok" /\ j = Len(searchLog)) =>
                  pc = "search" /\ plex = searchLog[j].h
            /\ (searchLog[j].res = "ok" /\ j < Len(searchLog)) =>
                  searchLog[j + 1].op = "search" /\ searchLog[j + 1].h = searchLog[j].h

\* the calls that touch the csv
CsvOps == {"write", "delete"}

\* the order of the calls of one run, as the logs show it
PhaseOrder ==
    \* while tracks are searched: no playlist or csv call has been made, the
    \* tracks before the current one are finished, and the log holds searches
    \* of the current track only
    /\ pc \in {"search", "connect", "match"} =>
          /\ opsLog = <<>>
          /\ Len(examined) = i - 1
          /\ \A j \in DOMAIN searchLog : searchLog[j].track = i
    \* a playlist or csv call is made only after every track was searched
    /\ opsLog # <<>> => ResolutionDone
    \* edit and uploadPoster come after the addItems or createPlaylist that
    \* succeeded, edit before uploadPoster
    /\ \A j \in DOMAIN opsLog :
          opsLog[j].op \in {"edit", "uploadPoster"} =>
             /\ \E l \in 1..(j - 1) :
                   /\ opsLog[l].op \in {"addItems", "createPlaylist"}
                   /\ opsLog[l].res = "ok"
             /\ \A l \in 1..(j - 1) :
                   opsLog[l].op = "uploadPoster" => opsLog[j].op # "edit"
    \* the csv call is the last call of the run, after which the run is over
    /\ \A j \in DOMAIN opsLog :
          opsLog[j].op \in CsvOps => j = Len(opsLog) /\ pc = "done"

\* within a run the loop goes from a track to the next one only, and only
\* when the candidates of the track have been examined
TrackOrder ==
    run' = run => \/ i' = i
                  \/ i' = i + 1 /\ pc = "match" /\ pc' = "search"

\* C14: every search of every track is made before any playlist call, tracks
\* are searched in source order, the description and the poster are edited
\* only after the playlist was updated or created, and the csv is written or
\* deleted after every playlist call, as the last effect of the run.
C14_PhaseOrder == []PhaseOrder /\ [][TrackOrder]_vars

C14_Witness ==
    /\ pc = "done"
    /\ Len(examined) = 2
    /\ Len(opsLog) = 6
    /\ opsLog[1].op = "playlist" /\ opsLog[1].res = "ok"
    /\ opsLog[2].op = "removeItems" /\ opsLog[2].res = "ok"
    /\ opsLog[3].op = "addItems" /\ opsLog[3].res = "ok"
    /\ opsLog[4].op = "edit"
    /\ opsLog[5].op = "uploadPoster"
    /\ opsLog[6].op = "write" /\ opsLog[6].res = "ok"

\* q is the title cut before its first "(", the whole title when it has none
RetryString(q, title) ==
    \/ PrefixBeforeParen(q, title)
    \/ ~HasParen(title) /\ q = title

\* the first search of the current track returned the empty list
FirstEmpty ==
    Issued # <<>> /\ Issued[1].res = "ok" /\ index[tracks[i].title] = <<>>
\* the first search of the current track was refused with BadRequest
FirstRefused == Issued # <<>> /\ Issued[1].res = "BadRequest"

\* a second search was made for the cut title with the limit of the first, and
\* its results, when it was not refused, are the candidates
SecondQueried ==
    /\ Len(Issued) = 2
    /\ RetryString(Issued[2].q, tracks[i].title)
    /\ Issued[2].mediatype = Issued[1].mediatype
    /\ Issued[2].limit = Issued[1].limit
    /\ Issued[2].res = "ok" => search = index[Issued[2].q]

Passes(c, t) ==
    /\ Artist(c).ok
    /\ \/ ArtistHigh(c, t)
       \/ Album(c).ok /\ AlbumHigh(c, t)

\* the positions of a candidate list that pass for descriptor t
Passing(list, t) == {p \in DOMAIN list : Passes(list[p], t)}

\* the results of the searches of the current track that were answered with a
\* list, first search first
Concatenated ==
    index[Issued[1].q] \o
        (IF Len(Issued) = 2 /\ Issued[2].res = "ok" THEN index[Issued[2].q] ELSE <<>>)

\* ratio r is below ratio q
Below(r, q) == r.num * q.den < q.num * r.den

\* C16: the candidates of a track are the results of its first search followed
\* by those of its second search; the track resolves to the earliest candidate
\* of that list that passes the acceptance test, the candidates after it are
\* not examined, and the track is missing when none passes.
C16_FirstMatchWins ==
    /\ (pc = "match" /\ Issued[1].res = "ok") => search = Concatenated
    /\ \A j \in DOMAIN examined :
          LET list == Listed(examined[j])
              seen == examined[j].seen
              pass == Passing(list, tracks[j])
          IN  /\ \A p \in DOMAIN seen : seen[p].cand = list[p]
              /\ IF pass = {}
                 THEN /\ Len(seen) = Len(list)
                      /\ j \in Range(missingFrom)
                      /\ j \notin Range(resolvedFrom)
                 ELSE /\ \A p \in pass : Len(seen) <= p
                      /\ Len(seen) \in pass
                      /\ j \notin Range(missingFrom)
                      /\ \E r \in DOMAIN resolvedFrom :
                            resolvedFrom[r] = j /\ plex_tracks[r] = list[Len(seen)]

\* a track resolved to a candidate of its second search while a candidate
\* with a higher artist similarity stood later in the list
C16_Witness ==
    \E j \in DOMAIN examined :
        LET list == examined[j].search
            last == Len(examined[j].seen)
        IN  /\ j \in Range(resolvedFrom)
            /\ index[tracks[j].title] # <<>>
            /\ Len(index[tracks[j].title]) < last
            /\ \E p \in (last + 1)..Len(list) :
                  /\ Artist(list[p]).ok
                  /\ Below(artist_similarity(list[last], tracks[j]),
                           artist_similarity(list[p], tracks[j]))

\* what holds of the code: a candidate whose artist() or album() raises
\* IndexError is skipped, the candidate after it is examined, and one that
\* passes later is taken
UnreadableSkipped ==
    \A j \in DOMAIN examined :
        LET list == Listed(examined[j])
            seen == examined[j].seen
        IN  \A p \in DOMAIN seen :
               (~Artist(seen[p].cand).ok
                  \/ (~ArtistHigh(seen[p].cand, tracks[j]) /\ ~Album(seen[p].cand).ok)) =>
                  /\ seen[p].verdict = "skip"
                  /\ p < Len(list) => Len(seen) > p
                  /\ (\E q \in (p + 1)..Len(list) : Passes(list[q], tracks[j])) =>
                        j \in Range(resolvedFrom)

\* the run ended inside the loop over the candidates of a track
MatchAborted == pc = "raised" /\ Len(examined) < Len(tracks) /\ ~InAcquire

\* C17: a failure to read a candidate's artist or album skips that candidate
\* and goes on with the next one; it never ends the resolution of the track or
\* of the playlist.
C17_MetadataFailureSkipped == UnreadableSkipped /\ ~MatchAborted

\* field f of obj has been read as v
ReadAs(obj, f, v) == f \in DOMAIN obj /\ obj[f] = v

\* the description (the poster) is there and its switch is on
DescriptionWanted ==
    /\ "description" \in DOMAIN playlist
    /\ playlist["description"] # ""
    /\ ReadAs(userInputs, "add_playlist_description", TRUE)
PosterWanted ==
    /\ "poster" \in DOMAIN playlist
    /\ playlist["poster"] # ""
    /\ ReadAs(userInputs, "add_playlist_poster", TRUE)

\* edit and uploadPoster are called only, and then always, when something was
\* resolved, the value is there and its switch is on; the playlist carries the
\* value only after the call succeeded
Gating ==
    /\ Calls("edit") # {} => plex_tracks # <<>> /\ DescriptionWanted
    /\ Calls("uploadPoster") # {} => plex_tracks # <<>> /\ PosterWanted
    /\ (pc \in {"poster", "csv", "done"} /\ PlaylistSettled /\ DescriptionWanted) =>
          Calls("edit") # {}
    /\ (pc \in {"csv", "done"} /\ PlaylistSettled /\ PosterWanted) =>
          Calls("uploadPoster") # {}
    /\ \A k \in DOMAIN server :
          /\ (k > Len(start.server) \/ server[k].summary # start.server[k].summary) =>
                (server[k].summary = "" \/
                    (Done("edit") # {} /\ server[k].summary = playlist["description"]))
          /\ (k > Len(start.server) \/ server[k].poster # start.server[k].poster) =>
                (server[k].poster = "" \/
                    (Done("uploadPoster") # {} /\ server[k].poster = playlist["poster"]))

\* the steps of lines 182-199, whether the edit succeeds or fails, leave the
\* items of every playlist alone and go on: to the poster, then to the csv
EditStep ==
    /\ pc \in {"describe", "poster"} => ItemsOf(server') = ItemsOf(server)
    /\ pc = "describe" => pc' = "poster"
    /\ pc = "poster" => pc' = "csv"

\* C18: the description is set only when something was resolved, the switch
\* add_playlist_description is on and there is a description, the poster only
\* when something was resolved, add_playlist_poster is on and there is a
\* poster; a failure of either leaves the items of the playlist as they were,
\* and the other edit and the csv step still follow.
C18_MetadataGating == []Gating /\ [][EditStep]_vars

C18_Witness ==
    /\ pc = "done"
    /\ \E j \in Calls("edit") : opsLog[j].res = "Error"
    /\ Done("uploadPoster") # {}
    /\ Done("write") # {}
    /\ server[1].items = plex_tracks
    /\ server[1].summary = ""
    /\ server[1].poster = "u"

\* the run has not read the append switch as on: it has not read it yet, or it
\* syncs
SyncRun == ~ReadAs(userInputs, "append_instead_of_sync", TRUE)

\* C19: in a run that syncs a playlist the server already has, with each
\* remote call taken as one step, addItems is called only after removeItems
\* has succeeded; the playlist holds its items of before the run, nothing, or
\* exactly the resolved tracks, never old and new items together; and when
\* removeItems succeeded and addItems did not, it is left empty.
C19_ClearThenAdd ==
    (start.server # <<>> /\ SyncRun) =>
        /\ server[1].items \in {start.server[1].items, <<>>, plex_tracks}
        /\ \A j \in Calls("addItems") :
              \E l \in 1..(j - 1) : l \in Done("removeItems")
        /\ Done("removeItems") = {} => server[1].items = start.server[1].items
        /\ (Done("removeItems") # {} /\ Done("addItems") = {}) => server[1].items = <<>>
        /\ Done("addItems") # {} => server[1].items = plex_tracks

C19_Witness ==
    /\ start.server # <<>>
    /\ start.server[1].items # <<>>
    /\ ReadAs(userInputs, "append_instead_of_sync", FALSE)
    /\ pc = "raised"
    /\ Done("removeItems") # {}
    /\ \E j \in Calls("addItems") : opsLog[j].res = "Error"
    /\ plex_tracks # <<>>
    /\ server[1].items = <<>>

\* a sequence of positions that goes up
Increasing(seq) == \A a, b \in DOMAIN seq : a < b => seq[a] < seq[b]

\* plex_tracks and missing_tracks follow the order of tracks: the descriptors
\* behind them stand in source order, each resolved entry is the candidate
\* taken for its descriptor, each missing entry is its descriptor
SourceOrder ==
    /\ Len(resolvedFrom) = Len(plex_tracks)
    /\ Len(missingFrom) = Len(missing_tracks)
    /\ Increasing(resolvedFrom)
    /\ Increasing(missingFrom)
    /\ \A r \in DOMAIN plex_tracks :
          LET seen == examined[resolvedFrom[r]].seen
          IN  plex_tracks[r] = seen[Len(seen)].cand
    /\ \A m \in DOMAIN missing_tracks : missing_tracks[m] = tracks[missingFrom[m]]

\* addItems adds exactly plex_tracks, in its order, to the items of the
\* playlist; createPlaylist makes a playlist of exactly plex_tracks
HandedOver ==
    /\ (pc = "add" /\ pc' = "describe") =>
          server'[1].items = server[1].items \o plex_tracks
    /\ (pc = "create" /\ pc' = "fetch") =>
          /\ Len(server') = Len(server) + 1
          /\ server'[Len(server')].items = plex_tracks
    /\ pc \notin {"idle", "done", "raised", "match"} => plex_tracks' = plex_tracks

\* C20: resolved lists the tracks taken in the source order of their
\* descriptors, one entry per resolved descriptor; missing lists the other
\* descriptors in source order; and what addItems or createPlaylist is given
\* is exactly resolved, in that order.
C20_OrderPreserved == []SourceOrder /\ [][HandedOver]_vars

C20_Witness ==
    /\ pc = "done"
    /\ tracks = <<TrackB, TrackA>>
    /\ plex_tracks = <<"K2", "K1">>
    /\ Done("addItems") # {}
    /\ SyncRun
    /\ server[1].items = <<"K2", "K1">>

\* two descriptors that resolve to the same catalog track give two entries
SameTrackTwice ==
    /\ pc = "done"
    /\ tracks = <<TrackA, TrackA>>
    /\ plex_tracks = <<"K1", "K1">>
    /\ Done("createPlaylist") # {}
    /\ server[Len(server)].items = <<"K1", "K1">>

====
